---- MODULE Spec2Model ----
(***************************************************************************)
(* The four dashboards of data-vis-final (erosion, land use, nutrients,    *)
(* greenhouse gas) as one state machine.  A session shows one page over    *)
(* one loaded dataset; every widget interaction re-runs the page's script  *)
(* from the top: the filtered frame and everything derived from it are     *)
(* recomputed from the dataset and the current widget values.              *)
(*                                                                         *)
(* A data frame is a sequence of rows (records), in file order.  A float   *)
(* is a record: an exact rational [k |-> "num", n, d] (d > 0, lowest       *)
(* terms), or one of the IEEE specials NaN, +inf, -inf.  Rounding of       *)
(* binary floating point is not modelled; division by zero, NaN skipping   *)
(* and NaN propagation are.                                                *)
(*                                                                         *)
(* source is the state of the page's data file when the script reads it.  *)
(* Under Spec the file is readable; SpecLoad adds the sessions in which    *)
(* it is missing or unreadable.  reads counts how often the session has    *)
(* read the file so far.                                                   *)
(***************************************************************************)
EXTENDS Integers, Sequences, FiniteSets, TLC

VARIABLES page, source, data, sel, filtered_df, out, reads

vars == <<page, source, data, sel, filtered_df, out, reads>>

\* The longest dataset (number of rows) a session loads.
MaxRows == 2

\* The reads of the data file a session counts; past that number the session
\* goes on and the count stays.
MaxReads == 3

---------------------------------------------------------------------------
(* Floats: numpy / pandas float64 arithmetic, exact on the finite values.  *)

NaN == [k |-> "nan"]
PosInf == [k |-> "inf"]
NegInf == [k |-> "-inf"]

Abs(i) == IF i < 0 THEN -i ELSE i

RECURSIVE GCD(_, _)
GCD(a, b) == IF b = 0 THEN a ELSE GCD(b, a % b)

\* The rational n/d (d # 0) in lowest terms with a positive denominator.
Rat(n, d) ==
    LET g == GCD(Abs(n), Abs(d))
        s == IF d < 0 THEN -1 ELSE 1
    IN  [k |-> "num", n |-> (s * n) \div g, d |-> (s * d) \div g]

F(i) == [k |-> "num", n |-> i, d |-> 1]

IsNum(x) == x.k = "num"
IsNaN(x) == x.k = "nan"
IsInf(x) == x.k \in {"inf", "-inf"}
Sign(x) == IF x.k = "inf" THEN 1
           ELSE IF x.k = "-inf" THEN -1
           ELSE IF x.n > 0 THEN 1 ELSE IF x.n < 0 THEN -1 ELSE 0

\* a + b and a - b on finite operands; NaN propagates.
FAdd(a, b) == IF IsNum(a) /\ IsNum(b)
              THEN Rat(a.n * b.d + b.n * a.d, a.d * b.d)
              ELSE NaN
FSub(a, b) == IF IsNum(a) /\ IsNum(b)
              THEN Rat(a.n * b.d - b.n * a.d, a.d * b.d)
              ELSE NaN

\* a / b as numpy float64 and pandas Series division compute it: no
\* exception on a zero divisor, 0/0 is NaN and x/0 is +inf or -inf.
FDiv(a, b) ==
    IF IsNaN(a) \/ IsNaN(b) THEN NaN
    ELSE IF IsInf(a) /\ IsInf(b) THEN NaN
    ELSE IF IsInf(a) THEN (IF Sign(a) * (IF Sign(b) < 0 THEN -1 ELSE 1) > 0
                           THEN PosInf ELSE NegInf)
    ELSE IF IsInf(b) THEN F(0)
    ELSE IF b.n = 0 THEN (IF a.n = 0 THEN NaN
                          ELSE IF a.n > 0 THEN PosInf ELSE NegInf)
    ELSE Rat(a.n * b.d, a.d * b.n)

\* a * b; inf * 0 is NaN.
FMul(a, b) ==
    IF IsNaN(a) \/ IsNaN(b) THEN NaN
    ELSE IF IsInf(a) \/ IsInf(b)
         THEN (IF Sign(a) * Sign(b) = 0 THEN NaN
               ELSE IF Sign(a) * Sign(b) > 0 THEN PosInf ELSE NegInf)
    ELSE Rat(a.n * b.n, a.d * b.d)

---------------------------------------------------------------------------
(* Frames *)

Range(s) == {s[i] : i \in 1..Len(s)}

\* All frames of 1..n rows over the row universe U.
Frames(U, n) == UNION {[1..m -> U] : m \in 1..n}

\* Series.sum(skipna=False): a NaN value makes the sum NaN.
RECURSIVE SeriesSum_keepna(_)
SeriesSum_keepna(xs) ==
    IF xs = <<>> THEN F(0)
    ELSE FAdd(Head(xs), SeriesSum_keepna(Tail(xs)))

\* Series.sum(): NaN values are skipped, the sum of nothing is 0.
RECURSIVE SeriesSum(_)
SeriesSum(xs) ==
    IF xs = <<>> THEN F(0)
    ELSE IF IsNaN(Head(xs)) THEN SeriesSum(Tail(xs))
    ELSE FAdd(Head(xs), SeriesSum(Tail(xs)))

\* The OBS_VALUE column of a frame.
OBS(frame) == [i \in 1..Len(frame) |-> frame[i].OBS_VALUE]

\* Series.count(): the number of non-NaN values.
RECURSIVE SeriesCount(_)
SeriesCount(xs) ==
    IF xs = <<>> THEN 0
    ELSE (IF IsNaN(Head(xs)) THEN 0 ELSE 1) + SeriesCount(Tail(xs))

\* Series.mean(): the mean of the non-NaN values; of none of them, NaN.
SeriesMean(xs) == FDiv(SeriesSum(xs), F(SeriesCount(xs)))

\* a <= b on finite values.
FLe(a, b) == a.n * b.d <= b.n * a.d

\* Python's order on the strings that serve as group keys (code points).
NameOrder ==
    << "AUT", "Arable land", "Austria", "BEL",
       "Balance (inputs minus outputs)", "Balance per hectare", "Belgium",
       "CH4", "CH4_AGR", "CO2", "CO2_LULUCF", "Cattle", "Cereals",
       "China (People's Republic of)",
       "European Union (27 countries from 01/02/2020)",
       "European Union (28 countries)",
       "Inorganic fertilisers", "Korea", "LW", "Nutrient inputs",
       "Nutrient outputs",
       "Organic farming", "Organic fertilisers (excluding livestock manure)",
       "Permanent pasture", "TOL", "TOTGHG", "TOTGHG_LULUCF", "Türkiye",
       "United Kingdom", "United States", "Water erosion", "Wind erosion",
       "_T" >>
Rank(name) == CHOOSE i \in 1..Len(NameOrder) : NameOrder[i] = name

\* sorted(...) of a set of integers, ascending.
RECURSIVE SortedInts(_)
SortedInts(S) ==
    IF S = {} THEN <<>>
    ELSE LET m == CHOOSE x \in S : \A y \in S : x <= y
         IN  <<m>> \o SortedInts(S \ {m})

\* sorted(...) of a set of (name, name) keys, ascending.
PairLess(a, b) == \/ Rank(a[1]) < Rank(b[1])
                  \/ Rank(a[1]) = Rank(b[1]) /\ Rank(a[2]) <= Rank(b[2])
RECURSIVE SortedPairs(_)
SortedPairs(S) ==
    IF S = {} THEN <<>>
    ELSE LET m == CHOOSE x \in S : \A y \in S : PairLess(x, y)
         IN  <<m>> \o SortedPairs(S \ {m})

\* sorted(...) of a set of names, ascending.
RECURSIVE SortedNames(_)
SortedNames(S) ==
    IF S = {} THEN <<>>
    ELSE LET m == CHOOSE x \in S : \A y \in S : Rank(x) <= Rank(y)
         IN  <<m>> \o SortedNames(S \ {m})

\* The orders sort_values(col) can leave a table in.  Values ascend (or
\* descend), NaN comes last (na_position='last'); the default kind,
\* 'quicksort', is not stable, so rows with equal values come in any order.
InOrder(a, b, ascending) ==
    \/ IsNaN(b)
    \/ /\ ~IsNaN(a)
       /\ IF ascending THEN FLe(a, b) ELSE FLe(b, a)
sort_values(table, col, ascending) ==
    LET n == Len(table)
        perms == {p \in [1..n -> 1..n] : \A i, j \in 1..n : p[i] = p[j] => i = j}
    IN  {[i \in 1..n |-> table[p[i]]] : p \in
            {q \in perms : \A i \in 1..n : \A j \in 1..n :
                i < j => InOrder(table[q[i]][col], table[q[j]][col], ascending)}}

\* DataFrame.tail(n) and DataFrame.head(n).
tail(table, n) ==
    IF Len(table) <= n THEN table ELSE SubSeq(table, Len(table) - n + 1, Len(table))
head(table, n) ==
    IF Len(table) <= n THEN table ELSE SubSeq(table, 1, n)

\* Lexicographic order on tuples of integers of one length.
RECURSIVE LexLe(_, _)
LexLe(a, b) ==
    IF a = <<>> THEN TRUE
    ELSE IF Head(a) < Head(b) THEN TRUE
    ELSE IF Head(a) > Head(b) THEN FALSE
    ELSE LexLe(Tail(a), Tail(b))

RECURSIVE SortedKeys(_)
SortedKeys(S) ==
    IF S = {} THEN <<>>
    ELSE LET m == CHOOSE x \in S : \A y \in S : LexLe(x, y)
         IN  <<m>> \o SortedKeys(S \ {m})

\* The columns that hold years; every other key column holds names.
TimeColumns == {"Time", "TIME_PERIOD"}

\* The place of a key value in the ascending order of its column: a year is
\* its own place, a name stands at its rank.
OrderKey(c, v) == IF c \in TimeColumns THEN v ELSE Rank(v)

\* The key of row r under groupby(by): its by columns, as places.
KeyOf(r, by) == [i \in 1..Len(by) |-> OrderKey(by[i], r[by[i]])]

\* frame.groupby(by): the groups in ascending order of their key, each
\* with its rows in frame order; a frame without rows has no group.
groupby(frame, by) ==
    LET ks == SortedKeys({KeyOf(r, by) : r \in Range(frame)})
    IN  [i \in 1..Len(ks) |-> SelectSeq(frame, LAMBDA r : KeyOf(r, by) = ks[i])]

\* The values S of column c in ascending order.
SortedBy(S, c) ==
    CHOOSE q \in [1..Cardinality(S) -> S] :
        \A i, j \in 1..Cardinality(S) :
            i < j => OrderKey(c, q[i]) < OrderKey(c, q[j])

\* long.pivot(index=idx, columns=col, values=val): the wide table with one
\* row per idx value and one column per col value, both ascending; a
\* combination without a row in long holds NaN.
pivot(long, idx, col, val) ==
    LET is == {r[idx] : r \in Range(long)}
        cs == {r[col] : r \in Range(long)}
    IN  [index |-> SortedBy(is, idx),
         columns |-> SortedBy(cs, col),
         cell |-> [k \in is \X cs |->
                     IF \E r \in Range(long) : r[idx] = k[1] /\ r[col] = k[2]
                     THEN (CHOOSE r \in Range(long) :
                              r[idx] = k[1] /\ r[col] = k[2])[val]
                     ELSE NaN]]

\* wide.fillna(v): every NaN cell becomes v.
fillna(wide, v) ==
    [wide EXCEPT !.cell = [k \in DOMAIN wide.cell |->
                              IF IsNaN(wide.cell[k]) THEN v ELSE wide.cell[k]]]

\* A column of a frame.
Col(frame, c) == [i \in 1..Len(frame) |-> frame[i][c]]

\* What a chart section shows: a figure drawn from a table, an empty
\* go.Figure(), or an st.warning message.
Chart(table) == [kind |-> "chart", table |-> table]
BlankFigure == [kind |-> "blank"]
Warning == [kind |-> "warning"]

\* f"{x:.1f}%": one decimal, ties to even; the specials print as text.
RoundHalfEven(n, d) ==
    LET q == n \div d
        r == n % d
    IN  IF 2 * r < d THEN q
        ELSE IF 2 * r > d THEN q + 1
        ELSE IF q % 2 = 0 THEN q ELSE q + 1
Fmt1f(x) ==
    IF IsNum(x) THEN [k |-> "num", tenths |-> RoundHalfEven(10 * x.n, x.d)]
    ELSE [k |-> x.k]

\* Series.min() / Series.max() of an integer column.
SetMin(S) == CHOOSE x \in S : \A y \in S : x <= y
SetMax(S) == CHOOSE x \in S : \A y \in S : y <= x

\* The positions a range slider over [lo, hi] can take: (a, b) with a <= b.
SliderRanges(lo, hi) == {r \in (lo..hi) \X (lo..hi) : r[1] <= r[2]}

---------------------------------------------------------------------------
(* Erosion dashboard: src/pages/erosion_charts.py *)

ERow(c, t, ty, lv, v) ==
    [Country |-> c, Time |-> t, Types_of_Erosion |-> ty,
     EROSION_LEVEL |-> lv, OBS_VALUE |-> v]

\* The observations an erosion dataset is drawn from.
ErosionRows ==
    { ERow("Austria", 2000, "Water erosion", "_T", F(4)),
      ERow("Austria", 2001, "Wind erosion", "LW", F(2)),
      ERow("Austria", 2002, "Water erosion", "TOL", F(1)),
      ERow("Belgium", 2000, "Wind erosion", "LW", F(0)),
      ERow("Belgium", 2001, "Water erosion", "_T", F(2)),
      ERow("Belgium", 2002, "Wind erosion", "_T", NaN) }

ero_filter_countries(filtered, countries) ==
    IF countries # {}
    THEN SelectSeq(filtered, LAMBDA r : r.Country \in countries)
    ELSE filtered

\* ero_filter_years with the upper end of the range excluded.
ero_filter_years_exclusive(filtered, years) ==
    IF years # <<>>
    THEN SelectSeq(filtered, LAMBDA r : r.Time >= years[1] /\ r.Time < years[2])
    ELSE filtered

ero_filter_years(filtered, years) ==
    IF years # <<>>
    THEN SelectSeq(filtered, LAMBDA r : r.Time >= years[1] /\ r.Time <= years[2])
    ELSE filtered

\* ero_filter_types without the emptiness guard.
ero_filter_types_unguarded(filtered, erosion_types) ==
    SelectSeq(filtered, LAMBDA r : r.Types_of_Erosion \in erosion_types)

ero_filter_types(filtered, erosion_types) ==
    IF erosion_types # {}
    THEN SelectSeq(filtered, LAMBDA r : r.Types_of_Erosion \in erosion_types)
    ELSE filtered

ero_filter_severity(filtered, severity_levels) ==
    IF severity_levels # {}
    THEN SelectSeq(filtered, LAMBDA r : r.EROSION_LEVEL \in severity_levels)
    ELSE filtered

\* ero_filter_data with the erosion-type mask taken on df instead of on
\* filtered_df, which discards the country and year filters.
ero_filter_data_from_df(df, countries, years, erosion_types, severity_levels) ==
    ero_filter_severity(ero_filter_types(df, erosion_types), severity_levels)

ero_filter_data(df, countries, years, erosion_types, severity_levels) ==
    ero_filter_severity(
        ero_filter_types(
            ero_filter_years(
                ero_filter_countries(df, countries), years),
            erosion_types),
        severity_levels)

\* The options of the erosion sidebar's widgets over df.
ero_countries(df) == {r.Country : r \in Range(df)}
ero_year_bounds(df) == <<SetMin({r.Time : r \in Range(df)}),
                         SetMax({r.Time : r \in Range(df)})>>
ero_erosion_types(df) == {r.Types_of_Erosion : r \in Range(df)}
ero_severity_levels(df) == {r.EROSION_LEVEL : r \in Range(df)}

\* The widgets' defaults: every option selected, the full year range
\* (countries[:5] is every country of a dataset with at most 5 of them).
ErosionDefaults(df) ==
    [selected_countries |-> ero_countries(df),
     selected_years |-> ero_year_bounds(df),
     selected_erosion_types |-> ero_erosion_types(df),
     selected_severity |-> ero_severity_levels(df)]

ero_filtered(df, s) ==
    ero_filter_data(df, s.selected_countries, s.selected_years,
                    s.selected_erosion_types, s.selected_severity)

\* The summary metrics of main() that count rows.
ero_main(df, s) ==
    LET f == ero_filtered(df, s)
    IN  [total_countries |-> IF f # <<>>
                             THEN Cardinality({r.Country : r \in Range(f)})
                             ELSE 0,
         year_span |-> s.selected_years[2] - s.selected_years[1] + 1,
         total_records |-> Len(f)]

\* df[df['EROSION_LEVEL'] == '_T']
\* ero_total_rows without the selection of the '_T' level.
ero_total_rows_every_level(df) == df

\* df[df['EROSION_LEVEL'] == '_T']
ero_total_rows(df) == SelectSeq(df, LAMBDA r : r.EROSION_LEVEL = "_T")

\* The 'Average Total Erosion' metric of main().
avg_erosion(f) ==
    IF f # <<>> THEN SeriesMean(OBS(ero_total_rows(f))) ELSE F(0)

create_time_series_chart(df) ==
    IF df = <<>> THEN BlankFigure
    ELSE LET g == groupby(ero_total_rows(df),
                          <<"Country", "Time", "Types_of_Erosion">>)
         IN  Chart([i \in 1..Len(g) |->
                      [Country |-> g[i][1].Country, Time |-> g[i][1].Time,
                       Types_of_Erosion |-> g[i][1].Types_of_Erosion,
                       OBS_VALUE |-> SeriesSum(OBS(g[i]))]])

create_erosion_comparison_chart(df) ==
    IF df = <<>> THEN BlankFigure
    ELSE LET g == groupby(ero_total_rows(df),
                          <<"Country", "Types_of_Erosion">>)
         IN  Chart([i \in 1..Len(g) |->
                      [Country |-> g[i][1].Country,
                       Types_of_Erosion |-> g[i][1].Types_of_Erosion,
                       OBS_VALUE |-> SeriesMean(OBS(g[i]))]])

\* The severity pie: the rows of the levels other than '_T' and 'TOL',
\* averaged by level (the risk-level column is the level's label).
create_severity_breakdown_chart(df) ==
    IF df = <<>> THEN BlankFigure
    ELSE LET g == groupby(SelectSeq(df, LAMBDA r :
                                        r.EROSION_LEVEL \notin {"_T", "TOL"}),
                          <<"EROSION_LEVEL">>)
         IN  Chart([i \in 1..Len(g) |->
                      [EROSION_LEVEL |-> g[i][1].EROSION_LEVEL,
                       OBS_VALUE |-> SeriesMean(OBS(g[i]))]])

\* The number of countries the ranking chart keeps.
EroTopN == 15

\* df[df['EROSION_LEVEL'] == '_T'].groupby('Country')['OBS_VALUE'].mean()
country_avg(df) ==
    LET g == groupby(ero_total_rows(df), <<"Country">>)
    IN  [i \in 1..Len(g) |-> [Country |-> g[i][1].Country,
                               OBS_VALUE |-> SeriesMean(OBS(g[i]))]]

\* country_avg.sort_values('OBS_VALUE', ascending=True).tail(n): every
\* table the sort can yield.
ero_ranking(table, n) ==
    {tail(t, n) : t \in sort_values(table, "OBS_VALUE", TRUE)}

create_country_ranking_chart(df) ==
    IF df = <<>> THEN {BlankFigure}
    ELSE {Chart(t) : t \in ero_ranking(country_avg(df), EroTopN)}

\* One pass of main(): the metrics and the four charts; one rendering for
\* each order the ranking's sort can yield.
ero_page(df, s) ==
    LET f == ero_filtered(df, s)
    IN  {ero_main(df, s) @@
         [avg_erosion |-> avg_erosion(f),
          avg_erosion_text |-> Fmt1f(avg_erosion(f)),
          time_series |-> create_time_series_chart(f),
          comparison |-> create_erosion_comparison_chart(f),
          severity |-> create_severity_breakdown_chart(f),
          ranking |-> rk] : rk \in create_country_ranking_chart(f)}

---------------------------------------------------------------------------
(* Land-use dashboard: src/pages/land_charts.py *)

LRow(c, t, ty, v) ==
    [Country |-> c, Time |-> t, Types_of_Land |-> ty, Actual_area_ha |-> v]

\* The observations a land dataset is drawn from.
LandRows ==
    { LRow("Austria", 2000, "Arable land", F(3)),
      LRow("Austria", 2001, "Permanent pasture", F(1)),
      LRow("Austria", 2002, "Arable land", NaN),
      LRow("Belgium", 2000, "Organic farming", F(1)),
      LRow("Belgium", 2001, "Arable land", F(3)),
      LRow("Belgium", 2002, "Permanent pasture", F(0)) }

\* land_filter_countries with the masked frame not assigned back.
land_filter_countries_unassigned(filtered, countries) == filtered

land_filter_countries(filtered, countries) ==
    IF countries # {}
    THEN SelectSeq(filtered, LAMBDA r : r.Country \in countries)
    ELSE filtered

land_filter_years(filtered, years) ==
    IF years # <<>>
    THEN SelectSeq(filtered, LAMBDA r : r.Time >= years[1] /\ r.Time <= years[2])
    ELSE filtered

land_filter_types(filtered, land_types) ==
    IF land_types # {}
    THEN SelectSeq(filtered, LAMBDA r : r.Types_of_Land \in land_types)
    ELSE filtered

\* land_filter_data falling back to the whole dataset when nothing matches.
land_filter_data_fallback(df, countries, years, land_types) ==
    LET f == land_filter_types(
                 land_filter_years(
                     land_filter_countries(df, countries), years),
                 land_types)
    IN  IF f = <<>> THEN df ELSE f

land_filter_data(df, countries, years, land_types) ==
    land_filter_types(
        land_filter_years(
            land_filter_countries(df, countries), years),
        land_types)

\* The options of the land sidebar's widgets over df.
land_countries(df) == {r.Country : r \in Range(df)}
land_year_bounds(df) == <<SetMin({r.Time : r \in Range(df)}),
                          SetMax({r.Time : r \in Range(df)})>>
land_land_types(df) == {r.Types_of_Land : r \in Range(df)}

LandDefaults(df) ==
    [selected_countries |-> land_countries(df),
     selected_years |-> land_year_bounds(df),
     selected_land_types |-> land_land_types(df)]

land_filtered(df, s) ==
    land_filter_data(df, s.selected_countries, s.selected_years,
                     s.selected_land_types)

land_main(df, s) ==
    LET f == land_filtered(df, s)
    IN  [total_countries |-> IF f # <<>>
                             THEN Cardinality({r.Country : r \in Range(f)})
                             ELSE 0,
         year_span |-> s.selected_years[2] - s.selected_years[1] + 1,
         land_type_count |-> IF f # <<>>
                             THEN Cardinality({r.Types_of_Land : r \in Range(f)})
                             ELSE 0]

AREA(frame) == Col(frame, "Actual_area_ha")

\* The 'Total Area' metric of main(), in millions of hectares.
total_area(f) ==
    IF f # <<>> THEN FDiv(SeriesSum(AREA(f)), F(1000000)) ELSE F(0)

\* df.groupby(['Time', 'Types of Land'])['Actual area (ha)'].sum()
land_area_data(df) ==
    LET g == groupby(df, <<"Time", "Types_of_Land">>)
    IN  [i \in 1..Len(g) |-> [Time |-> g[i][1].Time,
                               Types_of_Land |-> g[i][1].Types_of_Land,
                               Actual_area_ha |-> SeriesSum(AREA(g[i]))]]

create_stacked_area_chart(df) ==
    IF df = <<>> THEN BlankFigure
    ELSE Chart(fillna(pivot(land_area_data(df), "Time", "Types_of_Land",
                            "Actual_area_ha"),
                      F(0)))

create_temporal_trends_chart(df) ==
    IF df = <<>> THEN BlankFigure
    ELSE LET g == groupby(df, <<"Country", "Types_of_Land", "Time">>)
         IN  Chart([i \in 1..Len(g) |->
                      [Country |-> g[i][1].Country,
                       Types_of_Land |-> g[i][1].Types_of_Land,
                       Time |-> g[i][1].Time,
                       Actual_area_ha |-> SeriesSum(AREA(g[i]))]])

\* df.groupby(['Country', 'Types of Land'])['Actual area (ha)'].mean()
land_country_type_mean(df) ==
    LET g == groupby(df, <<"Country", "Types_of_Land">>)
    IN  [i \in 1..Len(g) |-> [Country |-> g[i][1].Country,
                               Types_of_Land |-> g[i][1].Types_of_Land,
                               Actual_area_ha |-> SeriesMean(AREA(g[i]))]]

create_country_comparison_chart(df) ==
    IF df = <<>> THEN BlankFigure ELSE Chart(land_country_type_mean(df))

create_land_composition_pie_chart(df) ==
    IF df = <<>> THEN BlankFigure
    ELSE LET g == groupby(df, <<"Types_of_Land">>)
             pie_data == [i \in 1..Len(g) |->
                            [Types_of_Land |-> g[i][1].Types_of_Land,
                             Actual_area_ha |-> SeriesSum(AREA(g[i]))]]
         IN  Chart(SelectSeq(pie_data, LAMBDA r : IsNum(r.Actual_area_ha)
                                                  /\ r.Actual_area_ha.n > 0))

\* The number of countries the heat map and the top-countries chart keep.
HeatmapTopN == 20
LandTopN == 15

\* heatmap_pivot: the mean area by country and land type, wide, NaN as 0.
heatmap_pivot(df) ==
    fillna(pivot(land_country_type_mean(df), "Country", "Types_of_Land",
                 "Actual_area_ha"),
           F(0))

\* heatmap_pivot.sum(axis=1): the total of each row of the wide table.
row_totals(wide) ==
    [i \in 1..Len(wide.index) |->
        [Country |-> wide.index[i],
         total |-> SeriesSum([j \in 1..Len(wide.columns) |->
                                 wide.cell[<<wide.index[i], wide.columns[j]>>]])]]

\* country_totals.sort_values(ascending=False).head(n): every table the
\* sort can yield.
heatmap_ranking(totals, n) ==
    {head(t, n) : t \in sort_values(totals, "total", FALSE)}

\* heatmap_pivot.loc[country_totals.index]
loc(wide, countries) == [wide EXCEPT !.index = countries]

create_heatmap_chart(df) ==
    IF df = <<>> THEN {BlankFigure}
    ELSE {Chart(loc(heatmap_pivot(df), Col(t, "Country"))) :
             t \in heatmap_ranking(row_totals(heatmap_pivot(df)), HeatmapTopN)}

\* df.groupby('Country')['Actual area (ha)'].sum()
land_country_sum(df) ==
    LET g == groupby(df, <<"Country">>)
    IN  [i \in 1..Len(g) |-> [Country |-> g[i][1].Country,
                               Actual_area_ha |-> SeriesSum(AREA(g[i]))]]

\* ....sort_values(ascending=True).tail(n): every table the sort can yield.
land_ranking(table, n) ==
    {tail(t, n) : t \in sort_values(table, "Actual_area_ha", TRUE)}

create_top_countries_chart(df) ==
    IF df = <<>> THEN {BlankFigure}
    ELSE {Chart(t) : t \in land_ranking(land_country_sum(df), LandTopN)}

\* A cell that may hold None: a value v is <<v>>, None is <<>>.
None == <<>>
notna(cell) == cell # None

\* country_mapping with the two European Union aggregates left out.
country_mapping_without_eu ==
    [c \in {"United States", "United Kingdom", "China (People's Republic of)",
            "Korea", "Türkiye"} |->
        CASE c = "United States" -> <<"USA">>
          [] c = "United Kingdom" -> <<"GBR">>
          [] c = "China (People's Republic of)" -> <<"CHN">>
          [] c = "Korea" -> <<"KOR">>
          [] c = "Türkiye" -> <<"TUR">>]

\* The dict of create_map_chart: five names to their ISO-3 codes, the two
\* European Union aggregates to None.
country_mapping ==
    [c \in {"United States", "United Kingdom", "China (People's Republic of)",
            "Korea", "Türkiye", "European Union (27 countries from 01/02/2020)",
            "European Union (28 countries)"} |->
        CASE c = "United States" -> <<"USA">>
          [] c = "United Kingdom" -> <<"GBR">>
          [] c = "China (People's Republic of)" -> <<"CHN">>
          [] c = "Korea" -> <<"KOR">>
          [] c = "Türkiye" -> <<"TUR">>
          [] OTHER -> None]

\* Series.replace(mapping): a key of the dict becomes its value, every
\* other name stays.
replace(name, mapping) ==
    IF name \in DOMAIN mapping THEN mapping[name] ELSE <<name>>

\* x > 0 on floats: false for NaN.
GtZero(x) == ~IsNaN(x) /\ Sign(x) = 1

\* The world map: the summed area per country, the rows with a sum above
\* zero, the mapped name, the rows whose mapped name is not None.
create_map_chart(df) ==
    IF df = <<>> THEN BlankFigure
    ELSE LET map_data == SelectSeq(land_country_sum(df),
                                   LAMBDA r : GtZero(r.Actual_area_ha))
             cleaned == [i \in 1..Len(map_data) |->
                            [Country |-> map_data[i].Country,
                             Actual_area_ha |-> map_data[i].Actual_area_ha,
                             Country_Clean |->
                                 replace(map_data[i].Country, country_mapping)]]
             kept == SelectSeq(cleaned, LAMBDA r : notna(r.Country_Clean))
         IN  Chart([i \in 1..Len(kept) |->
                      [Country |-> kept[i].Country,
                       Actual_area_ha |-> kept[i].Actual_area_ha,
                       Country_Clean |-> kept[i].Country_Clean[1]]])

\* One pass of main(): the metrics and the charts; one rendering for each
\* pair of orders the two rankings' sorts can yield.
land_page(df, s) ==
    LET f == land_filtered(df, s)
    IN  {land_main(df, s) @@
         [total_area |-> total_area(f),
          stacked_area |-> create_stacked_area_chart(f),
          composition |-> create_land_composition_pie_chart(f),
          trends |-> create_temporal_trends_chart(f),
          comparison |-> create_country_comparison_chart(f),
          top_countries |-> top,
          map |-> create_map_chart(f),
          heatmap |-> heat] :
            top \in create_top_countries_chart(f),
            heat \in create_heatmap_chart(f)}

---------------------------------------------------------------------------
(* Nutrients dashboard: src/nutrients.py *)

NRow(a, code, t, m, nu, v) ==
    [Reference_area |-> a, REF_AREA |-> code, TIME_PERIOD |-> t,
     Measure |-> m, Nutrients |-> nu, OBS_VALUE |-> v]

Organic == "Organic fertilisers (excluding livestock manure)"
Inorganic == "Inorganic fertilisers"
Balance == "Balance (inputs minus outputs)"

\* The observations a nutrients dataset is drawn from.
NutrientRows ==
    { NRow("Austria", "AUT", 2000, "Nutrient inputs", "Nitrogen", F(1)),
      NRow("Austria", "AUT", 2000, "Nutrient inputs", "Phosphorus", F(3)),
      NRow("Belgium", "BEL", 2001, "Nutrient outputs", "Nitrogen", NaN),
      NRow("Austria", "AUT", 2000, Inorganic, "Nitrogen", F(1)),
      NRow("Austria", "AUT", 2001, Organic, "Nitrogen", F(3)),
      NRow("Belgium", "BEL", 2000, Inorganic, "Phosphorus", F(0)),
      NRow("Belgium", "BEL", 2001, Balance, "Nitrogen", F(1)),
      NRow("Belgium", "BEL", 2001, Balance, "Phosphorus", F(-1)),
      NRow("Belgium", "BEL", 2001, "Nutrient outputs", "Phosphorus", F(2)),
      NRow("Austria", "AUT", 2000, "Cereals", "Nitrogen", F(2)),
      NRow("Belgium", "BEL", 2001, "Cattle", "Phosphorus", F(1)),
      NRow("Austria", "AUT", 2001, "Balance per hectare", "Nitrogen", F(5)) }

nut_year_mask(df, year_range) ==
    SelectSeq(df, LAMBDA r : r.TIME_PERIOD >= year_range[1]
                             /\ r.TIME_PERIOD <= year_range[2])

\* nut_area_mask honouring the sentinel only when it is the whole selection.
nut_area_mask_only_sentinel(filtered_data, selected_areas) ==
    IF selected_areas # {"All areas"}
    THEN SelectSeq(filtered_data, LAMBDA r : r.Reference_area \in selected_areas)
    ELSE filtered_data

nut_area_mask(filtered_data, selected_areas) ==
    IF "All areas" \notin selected_areas
    THEN SelectSeq(filtered_data, LAMBDA r : r.Reference_area \in selected_areas)
    ELSE filtered_data

nut_filtered_data(df, s) ==
    nut_area_mask(nut_year_mask(df, s.year_range), s.selected_areas)

\* run(): the options of the two main-filter widgets and their defaults.
nut_area(df) == {"All areas"} \cup {r.Reference_area : r \in Range(df)}
nut_year_bounds(df) == <<SetMin({r.TIME_PERIOD : r \in Range(df)}),
                         SetMax({r.TIME_PERIOD : r \in Range(df)})>>

NutrientDefaults(df) ==
    [selected_areas |-> {"All areas"}, year_range |-> nut_year_bounds(df),
     cat_type |-> "Nitrogen", live_type |-> "Nitrogen",
     n_meas |-> "Input", n_type |-> "Nitrogen"]

draw_proportion_bar(value1, value2) ==
    LET total == FAdd(value1, value2)
    IN  [value1 |-> value1, value2 |-> value2,
         share1 |-> FDiv(value1, total),
         share2 |-> FDiv(value2, total),
         text1 |-> Fmt1f(FMul(FDiv(value1, total), F(100))),
         text2 |-> Fmt1f(FMul(FDiv(value2, total), F(100)))]

render_nitphos(frame) ==
    LET nit_in == SeriesSum(OBS(SelectSeq(frame, LAMBDA r : r.Nutrients = "Nitrogen")))
        phos_in == SeriesSum(OBS(SelectSeq(frame, LAMBDA r : r.Nutrients = "Phosphorus")))
    IN  draw_proportion_bar(nit_in, phos_in)

\* render_hori_stacked_plot with the total grouped by area and measure, so
\* that every bar is divided by its own value.
render_hori_stacked_plot_own_total(frame) ==
    LET keys == SortedPairs({<<r.Reference_area, r.Measure>> : r \in Range(frame)})
        grouped == [i \in 1..Len(keys) |->
                      [Reference_area |-> keys[i][1], Measure |-> keys[i][2],
                       OBS_VALUE |-> SeriesSum(OBS(SelectSeq(frame,
                           LAMBDA r : r.Reference_area = keys[i][1]
                                      /\ r.Measure = keys[i][2])))]]
    IN  [i \in 1..Len(grouped) |->
            [Reference_area |-> grouped[i].Reference_area,
             Measure |-> grouped[i].Measure,
             OBS_VALUE |-> grouped[i].OBS_VALUE,
             Total |-> grouped[i].OBS_VALUE,
             Proportion |-> FDiv(grouped[i].OBS_VALUE, grouped[i].OBS_VALUE)]]

\* The bar rows of the organic / inorganic chart, one per (area, measure)
\* of the frame, in group-key order.
render_hori_stacked_plot(frame) ==
    LET keys == SortedPairs({<<r.Reference_area, r.Measure>> : r \in Range(frame)})
        grouped == [i \in 1..Len(keys) |->
                      [Reference_area |-> keys[i][1], Measure |-> keys[i][2],
                       OBS_VALUE |-> SeriesSum(OBS(SelectSeq(frame,
                           LAMBDA r : r.Reference_area = keys[i][1]
                                      /\ r.Measure = keys[i][2])))]]
        Total(a) == SeriesSum(OBS(SelectSeq(grouped,
                                  LAMBDA g : g.Reference_area = a)))
    IN  [i \in 1..Len(grouped) |->
            [Reference_area |-> grouped[i].Reference_area,
             Measure |-> grouped[i].Measure,
             OBS_VALUE |-> grouped[i].OBS_VALUE,
             Total |-> Total(grouped[i].Reference_area),
             Proportion |-> FDiv(grouped[i].OBS_VALUE,
                                 Total(grouped[i].Reference_area))]]

MeasureRows(frame, m) == SelectSeq(frame, LAMBDA r : r.Measure = m)

\* data.groupby(['Reference area', 'Measure'], as_index=False)['OBS_VALUE'].sum()
nut_area_measure_sum(frame) ==
    LET g == groupby(frame, <<"Reference_area", "Measure">>)
    IN  [i \in 1..Len(g) |-> [Reference_area |-> g[i][1].Reference_area,
                               Measure |-> g[i][1].Measure,
                               OBS_VALUE |-> SeriesSum(OBS(g[i]))]]

\* render_stacked_bar_plot with a grand-total row for a frame without rows.
render_stacked_bar_plot_total_row(frame, cat_type) ==
    LET d == SelectSeq(frame, LAMBDA r : r.Nutrients = cat_type)
    IN  IF d = <<>>
        THEN Chart(<<[Reference_area |-> "All areas", Measure |-> "Total",
                      OBS_VALUE |-> F(0)]>>)
        ELSE Chart(nut_area_measure_sum(d))

render_stacked_bar_plot(frame, cat_type) ==
    Chart(nut_area_measure_sum(SelectSeq(frame, LAMBDA r : r.Nutrients = cat_type)))

render_pie_plot(frame, live_type) ==
    LET g == groupby(SelectSeq(frame, LAMBDA r : r.Nutrients = live_type),
                     <<"Measure">>)
    IN  Chart([i \in 1..Len(g) |-> [Measure |-> g[i][1].Measure,
                                     OBS_VALUE |-> SeriesSum(OBS(g[i]))]])

render_choropleth_map(frame) ==
    LET g == groupby(frame, <<"REF_AREA">>)
    IN  Chart([i \in 1..Len(g) |-> [REF_AREA |-> g[i][1].REF_AREA,
                                     OBS_VALUE |-> SeriesSum(OBS(g[i]))]])

\* The measures of the output-category chart and of the livestock pie.
nutrient_output_cat ==
    {"Cereals", "Dried pulses and beans", "Harvested crops",
     "Harvested fodder crops", "Industrial crops", "Oil crops", "Other crops",
     "Forage"}
livestock_list ==
    {"Cattle", "Pigs", "Poultry", "Sheep and goats", "Other livestock"}

\* The frames the later sections of the page are drawn from.
filtered_output_cat(filtered_data) ==
    SelectSeq(filtered_data, LAMBDA r : r.Measure \in nutrient_output_cat)
filtered_livestock(filtered_data) ==
    SelectSeq(filtered_data, LAMBDA r : r.Measure \in livestock_list)
\* render_line_plot(n_meas, n_type, data): the rows of the chosen measure and
\* nutrient, drawn as they are (one line per area).
line_plot_measure(n_meas) ==
    CASE n_meas = "Input" -> "Nutrient inputs"
      [] n_meas = "Output" -> "Nutrient outputs"
      [] n_meas = "Balance" -> Balance
render_line_plot(n_meas, n_type, frame) ==
    Chart(SelectSeq(MeasureRows(frame, line_plot_measure(n_meas)),
                    LAMBDA r : r.Nutrients = n_type))

\* bal_per_hec taken from the area-filtered view.
bal_per_hec_filtered(df, s) ==
    MeasureRows(nut_filtered_data(df, s), "Balance per hectare")

\* choro_data: the year mask of the whole dataset, then the measure.
bal_per_hec(df, s) ==
    MeasureRows(nut_year_mask(df, s.year_range), "Balance per hectare")

render_nutrient_page(df, s) ==
    LET filtered_data == nut_filtered_data(df, s)
    IN  [stacked_bar |-> render_stacked_bar_plot(
                            filtered_output_cat(filtered_data), s.cat_type),
         pie |-> render_pie_plot(filtered_livestock(filtered_data), s.live_type),
         choropleth |-> render_choropleth_map(bal_per_hec(df, s)),
         line_plot |-> render_line_plot(s.n_meas, s.n_type, filtered_data),
         n_input |-> SeriesSum(OBS(MeasureRows(filtered_data, "Nutrient inputs"))),
         n_output |-> SeriesSum(OBS(MeasureRows(filtered_data, "Nutrient outputs"))),
         n_balance |-> SeriesSum(OBS(MeasureRows(filtered_data, Balance))),
         nitphos_inputs |-> render_nitphos(MeasureRows(filtered_data, "Nutrient inputs")),
         nitphos_outputs |-> render_nitphos(MeasureRows(filtered_data, "Nutrient outputs")),
         nitphos_balance |-> render_nitphos(MeasureRows(filtered_data, Balance)),
         hori |-> render_hori_stacked_plot(
                    SelectSeq(filtered_data,
                              LAMBDA r : r.Measure \in {Organic, Inorganic}))]

---------------------------------------------------------------------------
(* Greenhouse-gas dashboard: src/pages/greenhouse-gas.py *)

GRow(a, t, m, v) ==
    [Reference_area |-> a, TIME_PERIOD |-> t, MEASURE |-> m, OBS_VALUE |-> v]

\* The observations a greenhouse-gas dataset is drawn from.
GhgRows ==
    { GRow("Austria", 2015, "CO2", F(2)),
      GRow("Austria", 2017, "CO2", F(3)),
      GRow("Austria", 2016, "CO2", NaN),
      GRow("Austria", 2017, "CO2", F(-1)),
      GRow("Austria", 2015, "CH4", F(0)),
      GRow("Austria", 2016, "CH4", F(3)),
      GRow("Austria", 2017, "CH4", F(0)),
      GRow("Belgium", 2016, "CO2", F(2)),
      GRow("Austria", 2016, "CH4_AGR", F(1)) }

ghg_measure_mask(r, selected_measures) == r.MEASURE \in selected_measures
ghg_region_mask(r, selected_region) == r.Reference_area = selected_region
ghg_time_mask(r, selected_range) ==
    r.TIME_PERIOD >= selected_range[1] /\ r.TIME_PERIOD <= selected_range[2]

kpi_df_filtered(df, s) ==
    SelectSeq(df, LAMBDA r : /\ ghg_measure_mask(r, s.selected_measures)
                             /\ ghg_region_mask(r, s.selected_region)
                             /\ ghg_time_mask(r, s.selected_range))

\* The options of the KPI tab's widgets over df, and their defaults.
ghg_measures(df) == {r.MEASURE : r \in Range(df)}
ghg_year_bounds(df) == <<SetMin({r.TIME_PERIOD : r \in Range(df)}),
                         SetMax({r.TIME_PERIOD : r \in Range(df)})>>
ghg_all_regions(df) == {r.Reference_area : r \in Range(df)}

\* The options of the pie tab's category box.
PieCategories == {"TOTAL", "LULUCF", "AGR"}

\* KPI tab: measures, range, region.  Pie tab: range, region (the first
\* one), category (the first one).  Heatmap tab: year (the last one),
\* measure (the first one).
GhgDefaults(df) ==
    [selected_measures |-> ghg_measures(df),
     selected_range |-> ghg_year_bounds(df),
     selected_region |-> SortedNames(ghg_all_regions(df))[1],
     pie_time |-> ghg_year_bounds(df),
     pie_region |-> SortedNames(ghg_all_regions(df))[1],
     pie_category |-> "TOTAL",
     selected_year |-> ghg_year_bounds(df)[2],
     gas_type |-> SortedNames(ghg_measures(df))[1]]

\* The years of a frame in order of first appearance.
RECURSIVE FirstSeen(_, _)
FirstSeen(frame, seen) ==
    IF frame = <<>> THEN <<>>
    ELSE IF Head(frame).TIME_PERIOD \in seen THEN FirstSeen(Tail(frame), seen)
    ELSE <<Head(frame).TIME_PERIOD>>
         \o FirstSeen(Tail(frame), seen \cup {Head(frame).TIME_PERIOD})

\* annual_emissions grouped without sorting the years.
annual_emissions_unsorted(df_filtered) ==
    LET years == FirstSeen(df_filtered, {})
    IN  [i \in 1..Len(years) |->
            SeriesSum(OBS(SelectSeq(df_filtered,
                                    LAMBDA r : r.TIME_PERIOD = years[i])))]

\* df_filtered.groupby("TIME_PERIOD")["OBS_VALUE"].sum().sort_index()
annual_emissions(df_filtered) ==
    LET years == SortedInts({r.TIME_PERIOD : r \in Range(df_filtered)})
    IN  [i \in 1..Len(years) |->
            SeriesSum(OBS(SelectSeq(df_filtered,
                                    LAMBDA r : r.TIME_PERIOD = years[i])))]

pct_change(annual) ==
    IF Len(annual) >= 2
    THEN FMul(FDiv(FSub(annual[Len(annual)], annual[1]), annual[1]), F(100))
    ELSE F(0)

\* df_plot: the emissions by year and measure, wide; no fillna.
df_plot(df_filtered) ==
    LET g == groupby(df_filtered, <<"TIME_PERIOD", "MEASURE">>)
        long == [i \in 1..Len(g) |-> [TIME_PERIOD |-> g[i][1].TIME_PERIOD,
                                      MEASURE |-> g[i][1].MEASURE,
                                      OBS_VALUE |-> SeriesSum(OBS(g[i]))]]
    IN  pivot(long, "TIME_PERIOD", "MEASURE", "OBS_VALUE")

kpi_and_line_tab(df, s) ==
    LET df_filtered == kpi_df_filtered(df, s)
        annual == annual_emissions(df_filtered)
    IN  IF df_filtered = <<>>
        THEN [warning |-> TRUE]
        ELSE [warning |-> FALSE,
              total_emissions |-> SeriesSum(OBS(df_filtered)),
              annual_emissions |-> annual,
              avg_annual |-> FDiv(SeriesSum(annual), F(Len(annual))),
              pct_change |-> pct_change(annual),
              df_plot |-> df_plot(df_filtered)]

\* Series.str.contains(pat) on the names of the datasets: the pairs
\* (name, substring) among them that hold, for the patterns the tabs use.
Substrings ==
    {<<"CH4_AGR", "AGR">>, <<"CO2_LULUCF", "LULUCF">>, <<"TOTGHG", "TOTGHG">>,
     <<"TOTGHG_LULUCF", "TOTGHG">>, <<"TOTGHG_LULUCF", "LULUCF">>}
str_contains(name, pats) == \E pat \in pats : <<name, pat>> \in Substrings

\* pie_df_filtered without the removal of the TOTGHG measures.
pie_df_filtered_keep_totghg(df, s) ==
    LET region_time == SelectSeq(df, LAMBDA r :
                           /\ r.Reference_area = s.pie_region
                           /\ r.TIME_PERIOD >= s.pie_time[1]
                           /\ r.TIME_PERIOD <= s.pie_time[2])
    IN  CASE s.pie_category = "TOTAL" ->
               SelectSeq(region_time, LAMBDA r :
                   ~str_contains(r.MEASURE, {"LULUCF", "AGR"}))
          [] s.pie_category = "LULUCF" ->
               SelectSeq(region_time, LAMBDA r : str_contains(r.MEASURE, {"LULUCF"}))
          [] s.pie_category = "AGR" ->
               SelectSeq(region_time, LAMBDA r : str_contains(r.MEASURE, {"AGR"}))

pie_df_filtered(df, s) ==
    LET region_time == SelectSeq(df, LAMBDA r :
                           /\ r.Reference_area = s.pie_region
                           /\ r.TIME_PERIOD >= s.pie_time[1]
                           /\ r.TIME_PERIOD <= s.pie_time[2])
        no_total == SelectSeq(region_time, LAMBDA r :
                           ~str_contains(r.MEASURE, {"TOTGHG"}))
    IN  CASE s.pie_category = "TOTAL" ->
               SelectSeq(no_total, LAMBDA r :
                   ~str_contains(r.MEASURE, {"LULUCF", "AGR"}))
          [] s.pie_category = "LULUCF" ->
               SelectSeq(no_total, LAMBDA r : str_contains(r.MEASURE, {"LULUCF"}))
          [] s.pie_category = "AGR" ->
               SelectSeq(no_total, LAMBDA r : str_contains(r.MEASURE, {"AGR"}))

pie_chart_tab(df, s) ==
    LET df_filtered == pie_df_filtered(df, s)
        g == groupby(df_filtered, <<"MEASURE">>)
    IN  IF df_filtered = <<>> THEN Warning
        ELSE Chart([i \in 1..Len(g) |-> [MEASURE |-> g[i][1].MEASURE,
                                         OBS_VALUE |-> SeriesSum(OBS(g[i]))]])

choropleth_df_filtered(df, s) ==
    SelectSeq(df, LAMBDA r :
        /\ r.TIME_PERIOD = s.selected_year
        /\ r.MEASURE = s.gas_type
        /\ ~str_contains(r.Reference_area, {"World", "EU", "Total"}))

choropleth_tab(df, s) ==
    LET g == groupby(choropleth_df_filtered(df, s),
                     <<"Reference_area">>)
    IN  Chart([i \in 1..Len(g) |-> [Reference_area |-> g[i][1].Reference_area,
                                     OBS_VALUE |-> SeriesSum(OBS(g[i]))]])

\* A tab the script did not reach.
NotRendered == [kind |-> "not rendered"]

\* ghg_tabs with the KPI tab's early return ending the whole script.
ghg_tabs_stop_on_warning(df, s) ==
    LET kpi == kpi_and_line_tab(df, s)
    IN  IF kpi.warning
        THEN kpi @@ [pie |-> NotRendered, choropleth |-> NotRendered]
        ELSE kpi @@ [pie |-> pie_chart_tab(df, s),
                     choropleth |-> choropleth_tab(df, s)]

\* The three tabs of the page, each called in its turn.
ghg_tabs(df, s) ==
    kpi_and_line_tab(df, s) @@ [pie |-> pie_chart_tab(df, s),
                                choropleth |-> choropleth_tab(df, s)]

---------------------------------------------------------------------------
(* The session *)

Pages == {"erosion", "land", "nutrients", "ghg"}

Datasets(p) ==
    CASE p = "erosion" -> Frames(ErosionRows, MaxRows)
      [] p = "land" -> Frames(LandRows, MaxRows)
      [] p = "nutrients" -> Frames(NutrientRows, MaxRows)
      [] p = "ghg" -> Frames(GhgRows, MaxRows)

Defaults(p, df) ==
    CASE p = "erosion" -> ErosionDefaults(df)
      [] p = "land" -> LandDefaults(df)
      [] p = "nutrients" -> NutrientDefaults(df)
      [] p = "ghg" -> GhgDefaults(df)

Filtered(p, df, s) ==
    CASE p = "erosion" -> ero_filtered(df, s)
      [] p = "land" -> land_filtered(df, s)
      [] p = "nutrients" -> nut_filtered_data(df, s)
      [] p = "ghg" -> kpi_df_filtered(df, s)

\* The renderings one pass of the page's script can produce.
Rendered(p, df, s) ==
    CASE p = "erosion" -> ero_page(df, s)
      [] p = "land" -> land_page(df, s)
      [] p = "nutrients" -> {render_nutrient_page(df, s)}
      [] p = "ghg" -> {ghg_tabs(df, s)}

\* The states the page's data file can be in when the script reads it.
Sources == {"ok", "missing", "unreadable"}
Loaded == source = "ok"

\* What the session shows when the script ends before any widget exists:
\* st.error and st.stop(), or an exception nothing catches.
Stopped == [kind |-> "stopped", error_message |-> TRUE]
Uncaught == [kind |-> "exception", error_message |-> FALSE]

\* load_data() of erosion and land, then main()'s `if df.empty: st.stop()`:
\* FileNotFoundError is caught, reported and turned into an empty frame;
\* any other error of read_csv is not caught.
ero_load_data(src) == IF src = "missing" THEN Stopped ELSE Uncaught
land_load_data(src) == IF src = "missing" THEN Stopped ELSE Uncaught
\* NutrientDashboard.load_data(): st.error and st.stop() on FileNotFoundError.
nut_load_data(src) == IF src = "missing" THEN Stopped ELSE Uncaught
\* df_ghg = pd.read_csv(...) at the top of the script, outside any try.
ghg_read_csv(src) == Uncaught

LoadFailure(p, src) ==
    CASE p = "erosion" -> ero_load_data(src)
      [] p = "land" -> land_load_data(src)
      [] p = "nutrients" -> nut_load_data(src)
      [] p = "ghg" -> ghg_read_csv(src)

\* The pages whose load_data is decorated with @st.cache_data: the first run
\* reads the file, every later run gets the cached frame.
cache_data == {"erosion", "land"}

\* The calls of pd.read_csv in one run of the script that finds no cached
\* frame: NutrientDashboard.__init__ calls load_data twice, the other
\* scripts read once.
ReadsPerRun(p) == IF p = "nutrients" THEN 2 ELSE 1

\* The count of reads after n more of them.
Counted(r, n) == IF r + n <= MaxReads THEN r + n ELSE MaxReads

\* The reads of a run after the first: none with a cached frame.
load_again(p, r) == IF p \in cache_data THEN r ELSE Counted(r, ReadsPerRun(p))

\* A run that filters the view the previous run left.
Rerun_previous_view(s) ==
    /\ sel' = s
    /\ filtered_df' = Filtered(page, filtered_df, s)
    /\ out' \in Rendered(page, filtered_df, s)
    /\ reads' = load_again(page, reads)
    /\ UNCHANGED <<page, source, data>>

\* A run whose filter writes its result back into the loaded frame.
Rerun_in_place(s) ==
    /\ sel' = s
    /\ filtered_df' = Filtered(page, data, s)
    /\ data' = filtered_df'
    /\ out' \in Rendered(page, data, s)
    /\ reads' = load_again(page, reads)
    /\ UNCHANGED <<page, source>>

\* One run of the page's script with the widget values s.  The transforms
\* work on copies and on new tables (df.copy(), boolean indexing, groupby);
\* the loaded frame is rebound nowhere.
Rerun(s) ==
    /\ sel' = s
    /\ filtered_df' = Filtered(page, data, s)
    /\ out' \in Rendered(page, data, s)
    /\ reads' = load_again(page, reads)
    /\ UNCHANGED <<page, source, data>>

\* The first run of the script: with the file read, the widgets take their
\* defaults; otherwise the script ends in load_data.
FirstRun ==
    IF Loaded
    THEN /\ data \in Datasets(page)
         /\ sel = Defaults(page, data)
         /\ filtered_df = Filtered(page, data, sel)
         /\ out \in Rendered(page, data, sel)
         /\ reads = Counted(0, ReadsPerRun(page))
    ELSE /\ data = <<>>
         /\ sel = <<>>
         /\ filtered_df = <<>>
         /\ out = LoadFailure(page, source)
         /\ reads = 1

Init ==
    /\ page \in Pages
    /\ source = "ok"
    /\ FirstRun

\* The sessions whose data file may be missing or unreadable as well.
InitLoad ==
    /\ page \in Pages
    /\ source \in Sources
    /\ FirstRun

\* The user changes one widget of the page; the script re-runs.
EroSelectCountries ==
    /\ Loaded
    /\ page = "erosion"
    /\ \E v \in SUBSET ero_countries(data) :
          Rerun([sel EXCEPT !.selected_countries = v])

EroSelectYears ==
    /\ Loaded
    /\ page = "erosion"
    /\ \E v \in SliderRanges(ero_year_bounds(data)[1], ero_year_bounds(data)[2]) :
          Rerun([sel EXCEPT !.selected_years = v])

EroSelectErosionTypes ==
    /\ Loaded
    /\ page = "erosion"
    /\ \E v \in SUBSET ero_erosion_types(data) :
          Rerun([sel EXCEPT !.selected_erosion_types = v])

EroSelectSeverity ==
    /\ Loaded
    /\ page = "erosion"
    /\ \E v \in SUBSET ero_severity_levels(data) :
          Rerun([sel EXCEPT !.selected_severity = v])

LandSelectCountries ==
    /\ Loaded
    /\ page = "land"
    /\ \E v \in SUBSET land_countries(data) :
          Rerun([sel EXCEPT !.selected_countries = v])

LandSelectYears ==
    /\ Loaded
    /\ page = "land"
    /\ \E v \in SliderRanges(land_year_bounds(data)[1], land_year_bounds(data)[2]) :
          Rerun([sel EXCEPT !.selected_years = v])

LandSelectLandTypes ==
    /\ Loaded
    /\ page = "land"
    /\ \E v \in SUBSET land_land_types(data) :
          Rerun([sel EXCEPT !.selected_land_types = v])

NutSelectAreas ==
    /\ Loaded
    /\ page = "nutrients"
    /\ \E v \in SUBSET nut_area(data) :
          Rerun([sel EXCEPT !.selected_areas = v])

NutSelectYearRange ==
    /\ Loaded
    /\ page = "nutrients"
    /\ \E v \in SliderRanges(nut_year_bounds(data)[1], nut_year_bounds(data)[2]) :
          Rerun([sel EXCEPT !.year_range = v])

GhgSelectMeasures ==
    /\ Loaded
    /\ page = "ghg"
    /\ \E v \in SUBSET ghg_measures(data) :
          Rerun([sel EXCEPT !.selected_measures = v])

GhgSelectRange ==
    /\ Loaded
    /\ page = "ghg"
    /\ \E v \in SliderRanges(ghg_year_bounds(data)[1], ghg_year_bounds(data)[2]) :
          Rerun([sel EXCEPT !.selected_range = v])

GhgSelectRegion ==
    /\ Loaded
    /\ page = "ghg"
    /\ \E v \in ghg_all_regions(data) :
          Rerun([sel EXCEPT !.selected_region = v])

NutSelectCatType ==
    /\ Loaded
    /\ page = "nutrients"
    /\ \E v \in {"Nitrogen", "Phosphorus"} :
          Rerun([sel EXCEPT !.cat_type = v])

NutSelectLiveType ==
    /\ Loaded
    /\ page = "nutrients"
    /\ \E v \in {"Nitrogen", "Phosphorus"} :
          Rerun([sel EXCEPT !.live_type = v])

NutSelectMeas ==
    /\ Loaded
    /\ page = "nutrients"
    /\ \E v \in {"Input", "Output", "Balance"} :
          Rerun([sel EXCEPT !.n_meas = v])

NutSelectType ==
    /\ Loaded
    /\ page = "nutrients"
    /\ \E v \in {"Nitrogen", "Phosphorus"} :
          Rerun([sel EXCEPT !.n_type = v])

GhgSelectPieTime ==
    /\ Loaded
    /\ page = "ghg"
    /\ \E v \in SliderRanges(ghg_year_bounds(data)[1], ghg_year_bounds(data)[2]) :
          Rerun([sel EXCEPT !.pie_time = v])

GhgSelectPieRegion ==
    /\ Loaded
    /\ page = "ghg"
    /\ \E v \in ghg_all_regions(data) :
          Rerun([sel EXCEPT !.pie_region = v])

GhgSelectPieCategory ==
    /\ Loaded
    /\ page = "ghg"
    /\ \E v \in PieCategories :
          Rerun([sel EXCEPT !.pie_category = v])

GhgSelectYear ==
    /\ Loaded
    /\ page = "ghg"
    /\ \E v \in {r.TIME_PERIOD : r \in Range(data)} :
          Rerun([sel EXCEPT !.selected_year = v])

GhgSelectGasType ==
    /\ Loaded
    /\ page = "ghg"
    /\ \E v \in ghg_measures(data) :
          Rerun([sel EXCEPT !.gas_type = v])

Next ==
    \/ EroSelectCountries
    \/ EroSelectYears
    \/ EroSelectErosionTypes
    \/ EroSelectSeverity
    \/ LandSelectCountries
    \/ LandSelectYears
    \/ LandSelectLandTypes
    \/ NutSelectAreas
    \/ NutSelectYearRange
    \/ GhgSelectMeasures
    \/ GhgSelectRange
    \/ GhgSelectRegion
    \/ NutSelectCatType
    \/ NutSelectLiveType
    \/ NutSelectMeas
    \/ NutSelectType
    \/ GhgSelectPieTime
    \/ GhgSelectPieRegion
    \/ GhgSelectPieCategory
    \/ GhgSelectYear
    \/ GhgSelectGasType

\* The sessions whose data file is read.
Spec == Init /\ [][Next]_vars

\* The sessions over every state of the data file.
SpecLoad == InitLoad /\ [][Next]_vars

---------------------------------------------------------------------------
(* filter_data called as a function: the sidebar's slider yields only ranges
   with min <= max, a caller of filter_data can pass any pair of years. *)

\* The pairs of years over lo..hi, in either order.
YearPairs(lo, hi) == (lo..hi) \X (lo..hi)

\* What a call hands back: filter_data has no raise and no check of its
\* arguments, every call returns a frame.
Returned(frame) == [kind |-> "returned", value |-> frame]

InitFilter ==
    /\ page \in {"erosion", "land"}
    /\ source = "ok"
    /\ data \in Datasets(page)
    /\ sel = Defaults(page, data)
    /\ filtered_df = Filtered(page, data, sel)
    /\ out = Returned(filtered_df)
    /\ reads = 1

\* filter_data(df, countries, years, erosion_types, severity_levels)
EroFilterData ==
    /\ page = "erosion"
    /\ \E c \in SUBSET ero_countries(data) :
       \E y \in YearPairs(ero_year_bounds(data)[1], ero_year_bounds(data)[2]) :
          /\ sel' = [sel EXCEPT !.selected_countries = c, !.selected_years = y]
          /\ filtered_df' = ero_filter_data(data, c, y, sel.selected_erosion_types,
                                            sel.selected_severity)
          /\ out' = Returned(filtered_df')
    /\ UNCHANGED <<page, source, data, reads>>

\* filter_data(df, countries, years, land_types)
LandFilterData ==
    /\ page = "land"
    /\ \E c \in SUBSET land_countries(data) :
       \E y \in YearPairs(land_year_bounds(data)[1], land_year_bounds(data)[2]) :
          /\ sel' = [sel EXCEPT !.selected_countries = c, !.selected_years = y]
          /\ filtered_df' = land_filter_data(data, c, y, sel.selected_land_types)
          /\ out' = Returned(filtered_df')
    /\ UNCHANGED <<page, source, data, reads>>

NextFilter ==
    \/ EroFilterData
    \/ LandFilterData

\* The calls of filter_data over every pair of years.
SpecFilter == InitFilter /\ [][NextFilter]_vars

---------------------------------------------------------------------------
(* The pie tab over datasets with total, land-use and agriculture measures. *)

\* The observations these datasets are drawn from.
PieRows ==
    { GRow("Austria", 2015, "CO2", F(2)),
      GRow("Austria", 2016, "CO2", NaN),
      GRow("Austria", 2015, "CH4_AGR", F(1)),
      GRow("Austria", 2016, "CO2_LULUCF", F(-1)),
      GRow("Austria", 2015, "TOTGHG", F(4)),
      GRow("Austria", 2016, "TOTGHG_LULUCF", F(3)),
      GRow("Belgium", 2015, "CO2", F(2)) }

InitPie ==
    /\ page = "ghg"
    /\ source = "ok"
    /\ data \in Frames(PieRows, MaxRows)
    /\ sel = Defaults(page, data)
    /\ filtered_df = Filtered(page, data, sel)
    /\ out \in Rendered(page, data, sel)
    /\ reads = Counted(0, ReadsPerRun(page))

NextPie ==
    \/ GhgSelectPieTime
    \/ GhgSelectPieRegion
    \/ GhgSelectPieCategory

\* The sessions of the greenhouse-gas page in which the pie tab's widgets
\* change.
SpecPie == InitPie /\ [][NextPie]_vars

---------------------------------------------------------------------------
(* The land page over datasets with the countries create_map_chart renames
   or skips. *)

\* The observations these datasets are drawn from.
MapRows ==
    { LRow("United States", 2000, "Arable land", F(3)),
      LRow("United Kingdom", 2000, "Arable land", F(2)),
      LRow("China (People's Republic of)", 2001, "Arable land", F(4)),
      LRow("Korea", 2000, "Permanent pasture", F(1)),
      LRow("Türkiye", 2001, "Arable land", F(2)),
      LRow("European Union (27 countries from 01/02/2020)", 2000,
           "Arable land", F(5)),
      LRow("European Union (28 countries)", 2001, "Arable land", F(6)),
      LRow("Austria", 2000, "Arable land", F(3)),
      LRow("Austria", 2001, "Arable land", F(-3)),
      LRow("Belgium", 2000, "Permanent pasture", F(0)),
      LRow("Belgium", 2001, "Arable land", NaN) }

InitMap ==
    /\ page = "land"
    /\ source = "ok"
    /\ data \in Frames(MapRows, MaxRows)
    /\ sel = Defaults(page, data)
    /\ filtered_df = Filtered(page, data, sel)
    /\ out \in Rendered(page, data, sel)
    /\ reads = Counted(0, ReadsPerRun(page))

NextMap ==
    \/ LandSelectCountries
    \/ LandSelectYears
    \/ LandSelectLandTypes

\* The sessions of the land page over these datasets.
SpecMap == InitMap /\ [][NextMap]_vars

---------------------------------------------------------------------------
(* What the claims speak of, stated over the state of a session. *)

OnFilterPage == page \in {"erosion", "land"}

\* The time and the entity of a row, and the selected year range.
RowTime(r) == IF OnFilterPage THEN r.Time ELSE r.TIME_PERIOD
RowEntity(r) == IF OnFilterPage THEN r.Country ELSE r.Reference_area
YearRange ==
    CASE OnFilterPage -> sel.selected_years
      [] page = "nutrients" -> sel.year_range
      [] page = "ghg" -> sel.selected_range
InRange(r) == YearRange[1] <= RowTime(r) /\ RowTime(r) <= YearRange[2]

\* The frame each filter stage yields when it alone is applied to the dataset.
EntityAlone ==
    CASE page = "erosion" -> ero_filter_countries(data, sel.selected_countries)
      [] page = "land" -> land_filter_countries(data, sel.selected_countries)
      [] page = "nutrients" -> nut_area_mask(data, sel.selected_areas)
      [] page = "ghg" ->
            SelectSeq(data, LAMBDA r : ghg_region_mask(r, sel.selected_region))
TimeAlone ==
    CASE page = "erosion" -> ero_filter_years(data, sel.selected_years)
      [] page = "land" -> land_filter_years(data, sel.selected_years)
      [] page = "nutrients" -> nut_year_mask(data, sel.year_range)
      [] page = "ghg" ->
            SelectSeq(data, LAMBDA r : ghg_time_mask(r, sel.selected_range))
\* The dimension filters of the page: erosion has two, nutrients none.
DimAlone ==
    CASE page = "erosion" ->
            <<ero_filter_types(data, sel.selected_erosion_types),
              ero_filter_severity(data, sel.selected_severity)>>
      [] page = "land" -> <<land_filter_types(data, sel.selected_land_types)>>
      [] page = "nutrients" -> <<>>
      [] page = "ghg" ->
            <<SelectSeq(data, LAMBDA r : ghg_measure_mask(r, sel.selected_measures))>>

PassesEntity(r) == r \in Range(EntityAlone)
PassesTime(r) == r \in Range(TimeAlone)
PassesDims(r) == \A i \in 1..Len(DimAlone) : r \in Range(DimAlone[i])
PassesDimsBut(r, j) ==
    \A i \in 1..Len(DimAlone) : i # j => r \in Range(DimAlone[i])

\* C1: on every page the filtered view is exactly the rows that pass the
\* entity and dimension filters and whose time t satisfies min <= t <= max,
\* both ends included; so a range (y, y) keeps exactly the rows of year y.
C1_TimeFilterInclusive ==
    /\ filtered_df = SelectSeq(data, LAMBDA r : /\ PassesEntity(r)
                                                /\ PassesDims(r)
                                                /\ InRange(r))
    /\ YearRange[1] = YearRange[2] =>
          \A r \in Range(filtered_df) : RowTime(r) = YearRange[1]

\* A one-year range on a dataset that also holds another year: the row of
\* the selected year is kept, the other one is dropped by the time filter alone.
C1_Witness ==
    /\ YearRange[1] = YearRange[2]
    /\ filtered_df # <<>>
    /\ \E r \in Range(data) :
          /\ PassesEntity(r) /\ PassesDims(r)
          /\ RowTime(r) # YearRange[1]

\* C2: with the 'All areas' sentinel among the selected areas of the
\* nutrients dashboard, the filtered view is the view of the time filter
\* alone, whatever other areas are selected with it.
C2_AllAreasNoRestriction ==
    (page = "nutrients" /\ "All areas" \in sel.selected_areas) =>
        filtered_df = SelectSeq(data, LAMBDA r : InRange(r))

\* The sentinel selected together with one area, and a row of another area
\* in the view.
C2_Witness ==
    /\ page = "nutrients"
    /\ "All areas" \in sel.selected_areas
    /\ sel.selected_areas # {"All areas"}
    /\ \E r \in Range(filtered_df) : r.Reference_area \notin sel.selected_areas

\* C3 as stated: whenever the entity selection is not ALL, on the erosion,
\* land and nutrients pages, the view is exactly the rows of the selected
\* entities that pass the other filters, the empty selection included.
C3_Original ==
    (page \in {"erosion", "land", "nutrients"}
     /\ ~(page = "nutrients" /\ "All areas" \in sel.selected_areas)) =>
        filtered_df =
            SelectSeq(data, LAMBDA r :
                /\ RowEntity(r) \in (IF OnFilterPage THEN sel.selected_countries
                                     ELSE sel.selected_areas)
                /\ PassesTime(r) /\ PassesDims(r))

\* C3 amended: the area mask of nutrients keeps exactly the rows of the
\* selected areas for every selection without the sentinel (the empty one
\* keeps nothing); filter_data of erosion and land does so for every
\* non-empty selection of countries, and an empty selection there imposes no
\* restriction.
C3_EntityMembership ==
    /\ (page = "nutrients" /\ "All areas" \notin sel.selected_areas) =>
          filtered_df = SelectSeq(data, LAMBDA r :
                            /\ r.Reference_area \in sel.selected_areas
                            /\ PassesTime(r))
    /\ (OnFilterPage /\ sel.selected_countries # {}) =>
          filtered_df = SelectSeq(data, LAMBDA r :
                            /\ r.Country \in sel.selected_countries
                            /\ PassesTime(r) /\ PassesDims(r))
    /\ (OnFilterPage /\ sel.selected_countries = {}) =>
          filtered_df = SelectSeq(data, LAMBDA r : PassesTime(r) /\ PassesDims(r))

\* A proper non-empty selection of countries that drops a row of another
\* country which passes every other filter.
C3_Witness ==
    /\ OnFilterPage
    /\ sel.selected_countries # {}
    /\ filtered_df # <<>>
    /\ \E r \in Range(data) :
          /\ r.Country \notin sel.selected_countries
          /\ PassesTime(r) /\ PassesDims(r)

\* The dimension selections of the page, in the order of DimAlone, and the
\* dimension value of a row.
DimSelected ==
    CASE page = "erosion" -> <<sel.selected_erosion_types, sel.selected_severity>>
      [] page = "land" -> <<sel.selected_land_types>>
      [] page = "nutrients" -> <<>>
      [] page = "ghg" -> <<sel.selected_measures>>
DimValue(r, j) ==
    CASE page = "erosion" -> IF j = 1 THEN r.Types_of_Erosion ELSE r.EROSION_LEVEL
      [] page = "land" -> r.Types_of_Land
      [] page = "ghg" -> r.MEASURE

\* The view without the restriction of dimension j, and with dimension j
\* read as membership.
WithoutDim(j) ==
    SelectSeq(data, LAMBDA r :
        PassesEntity(r) /\ PassesTime(r) /\ PassesDimsBut(r, j))
MembersOfDim(j) ==
    SelectSeq(WithoutDim(j), LAMBDA r : DimValue(r, j) \in DimSelected[j])

ReversedStages ==
    CASE page = "erosion" ->
            ero_filter_countries(
                ero_filter_years(
                    ero_filter_types(
                        ero_filter_severity(data, sel.selected_severity),
                        sel.selected_erosion_types),
                    sel.selected_years),
                sel.selected_countries)
      [] page = "land" ->
            land_filter_countries(
                land_filter_years(
                    land_filter_types(data, sel.selected_land_types),
                    sel.selected_years),
                sel.selected_countries)
      [] page = "nutrients" ->
            nut_year_mask(nut_area_mask(data, sel.selected_areas), sel.year_range)
      [] page = "ghg" ->
            SelectSeq(data, LAMBDA r : /\ ghg_time_mask(r, sel.selected_range)
                                       /\ ghg_region_mask(r, sel.selected_region)
                                       /\ ghg_measure_mask(r, sel.selected_measures))

\* C5: a row is in the filtered view iff it is in the view each filter
\* yields alone (entity, time, every dimension), and applying the filters in
\* another order gives the same view.
C5_Conjunctive ==
    /\ filtered_df = SelectSeq(data, LAMBDA r :
                        PassesEntity(r) /\ PassesTime(r) /\ PassesDims(r))
    /\ filtered_df = ReversedStages

\* One row fails only the entity filter and another only the time filter:
\* each filter alone keeps a row, their conjunction keeps none.
C5_Witness ==
    /\ filtered_df = <<>>
    /\ \E r \in Range(data) : ~PassesEntity(r) /\ PassesTime(r) /\ PassesDims(r)
    /\ \E r \in Range(data) : PassesEntity(r) /\ ~PassesTime(r) /\ PassesDims(r)

NoRowMatches ==
    \A r \in Range(data) : ~(PassesEntity(r) /\ PassesTime(r) /\ PassesDims(r))

\* C6: a selection that no row matches yields the empty view and the pass
\* completes: the row counts of erosion and land are 0, the KPI tab shows
\* its no-data warning.
C6_EmptyViewNoError ==
    NoRowMatches =>
        /\ filtered_df = <<>>
        /\ OnFilterPage => out.total_countries = 0
        /\ page = "erosion" => out.total_records = 0
        /\ page = "ghg" => out.warning

\* A year range between the years of the dataset matches no row, on the
\* erosion or land page.
C6_Witness ==
    /\ OnFilterPage
    /\ \A r \in Range(data) : ~InRange(r)
    /\ filtered_df = <<>>

\* The sum of the reported (non-NaN) values of the view's rows at the
\* positions I; the observations are whole numbers.
RECURSIVE IntSum(_)
IntSum(I) ==
    IF I = {} THEN 0
    ELSE LET i == CHOOSE j \in I : TRUE
         IN  (IF IsNum(filtered_df[i].OBS_VALUE)
              THEN filtered_df[i].OBS_VALUE.n ELSE 0) + IntSum(I \ {i})

ViewRows == 1..Len(filtered_df)

\* p is the quotient v / t of two whole numbers, t # 0.
IsQuotient(p, v, t) == IsNum(p) /\ p.n * t = v * p.d

Fertilisers == {Organic, Inorganic}
PartitionTotal(a) ==
    IntSum({i \in ViewRows : /\ filtered_df[i].Reference_area = a
                             /\ filtered_df[i].Measure \in Fertilisers})
GroupValue(a, m) ==
    IntSum({i \in ViewRows : /\ filtered_df[i].Reference_area = a
                             /\ filtered_df[i].Measure = m})
NutrientValue(m, nu) ==
    IntSum({i \in ViewRows : /\ filtered_df[i].Measure = m
                             /\ filtered_df[i].Nutrients = nu})
NitPhosBars ==
    << <<"Nutrient inputs", out.nitphos_inputs>>,
       <<"Nutrient outputs", out.nitphos_outputs>>,
       <<Balance, out.nitphos_balance>> >>

\* C7: in every partition with a non-zero total (a reference area of the
\* organic / inorganic chart, the nitrogen / phosphorus pair of a measure)
\* each proportion is the row's value divided by the partition total, and
\* the proportions of the partition sum to 1.
C7_ProportionsSumToOne ==
    page = "nutrients" =>
        /\ {<<b.Reference_area, b.Measure>> : b \in Range(out.hori)} =
             {<<r.Reference_area, r.Measure>> :
                 r \in {x \in Range(filtered_df) : x.Measure \in Fertilisers}}
        /\ \A i \in 1..Len(out.hori) :
              LET b == out.hori[i]
                  t == PartitionTotal(b.Reference_area)
                  part == SelectSeq(out.hori,
                             LAMBDA c : c.Reference_area = b.Reference_area)
              IN  t # 0 =>
                    /\ IsQuotient(b.Proportion,
                                  GroupValue(b.Reference_area, b.Measure), t)
                    /\ SeriesSum([j \in 1..Len(part) |-> part[j].Proportion]) = F(1)
        /\ \A i \in 1..Len(NitPhosBars) :
              LET m == NitPhosBars[i][1]
                  bar == NitPhosBars[i][2]
                  v1 == NutrientValue(m, "Nitrogen")
                  v2 == NutrientValue(m, "Phosphorus")
              IN  v1 + v2 # 0 =>
                    /\ IsQuotient(bar.share1, v1, v1 + v2)
                    /\ IsQuotient(bar.share2, v2, v1 + v2)
                    /\ FAdd(bar.share1, bar.share2) = F(1)

\* Values 1 and 3 in one partition give 0.25 and 0.75, in the organic /
\* inorganic chart and in a nitrogen / phosphorus bar.
C7_Witness ==
    /\ page = "nutrients"
    /\ \/ /\ Len(out.hori) = 2
          /\ out.hori[1].Proportion = [k |-> "num", n |-> 1, d |-> 4]
          /\ out.hori[2].Proportion = [k |-> "num", n |-> 3, d |-> 4]
       \/ /\ out.nitphos_inputs.share1 = [k |-> "num", n |-> 1, d |-> 4]
          /\ out.nitphos_inputs.share2 = [k |-> "num", n |-> 3, d |-> 4]

\* A value is the designated marker: no number, not NaN, not an infinity.
IsMarker(x) == x.k \notin {"num", "nan", "inf", "-inf"}

\* C8 as stated: when a partition's total is 0 the proportion handed to the
\* chart or the label is the DivisionByZero marker, never 0, NaN or infinity.
C8_DivisionByZeroMarker ==
    page = "nutrients" =>
        /\ \A i \in 1..Len(out.hori) :
              PartitionTotal(out.hori[i].Reference_area) = 0 =>
                  IsMarker(out.hori[i].Proportion)
        /\ \A i \in 1..Len(NitPhosBars) :
              LET m == NitPhosBars[i][1]
                  bar == NitPhosBars[i][2]
              IN  NutrientValue(m, "Nitrogen") + NutrientValue(m, "Phosphorus") = 0 =>
                    /\ IsMarker(bar.share1) /\ IsMarker(bar.text1)
                    /\ IsMarker(bar.share2) /\ IsMarker(bar.text2)

ViewYears == {r.TIME_PERIOD : r \in Range(filtered_df)}
YearTotal(y) == IntSum({i \in ViewRows : filtered_df[i].TIME_PERIOD = y})

\* C9: with at least two distinct years in the filtered view and a non-zero
\* total of the earliest year, the percent change of kpi_and_line_tab is
\* (last - first) / first * 100 over the totals of the earliest and the
\* latest year of the view, whatever the order of the rows in the dataset.
C9_PercentChange ==
    (page = "ghg" /\ Cardinality(ViewYears) >= 2
     /\ YearTotal(SetMin(ViewYears)) # 0) =>
        LET first == YearTotal(SetMin(ViewYears))
            last == YearTotal(SetMax(ViewYears))
        IN  /\ ~out.warning
            /\ IsQuotient(out.pct_change, (last - first) * 100, first)

\* From 2 to 3 is a change of 50 percent, with the later year's row first
\* in the dataset.
C9_Witness ==
    /\ page = "ghg"
    /\ Len(filtered_df) = 2
    /\ filtered_df[1].TIME_PERIOD > filtered_df[2].TIME_PERIOD
    /\ out.pct_change = F(50)

\* C10 as stated: with at least two time points and a first total of 0 the
\* percent change is the "not applicable" marker, never +inf, -inf or NaN.
C10_ZeroFirstNotApplicable ==
    (page = "ghg" /\ Cardinality(ViewYears) >= 2
     /\ YearTotal(SetMin(ViewYears)) = 0) =>
        IsMarker(out.pct_change)

\* C11 as stated: when the non-empty view of the KPI tab covers fewer than
\* two years, the percent change is the "not applicable" marker, which is
\* not the number 0.
C11_SingleYearNotApplicable ==
    (page = "ghg" /\ ~out.warning /\ Cardinality(ViewYears) < 2) =>
        IsMarker(out.pct_change)

\* The order the claim gives two rows of a ranking table: the higher value
\* first, equal values by country name ascending; a row without a value
\* comes after every row with one.
ClaimedBefore(a, b, col) ==
    IF IsNaN(a[col]) \/ IsNaN(b[col])
    THEN \/ ~IsNaN(a[col])
         \/ IsNaN(b[col]) /\ Rank(a.Country) < Rank(b.Country)
    ELSE \/ ~FLe(a[col], b[col])
         \/ a[col] = b[col] /\ Rank(a.Country) < Rank(b.Country)

\* kept holds exactly the first min(n, rows) rows of table in that order.
IsClaimedTopN(kept, table, col, n) ==
    /\ Len(kept) = IF Len(table) < n THEN Len(table) ELSE n
    /\ Range(kept) \subseteq Range(table)
    /\ \A a \in Range(kept) : \A b \in Range(table) \ Range(kept) :
          ClaimedBefore(a, b, col)

\* C12 as stated: for every cut-off n and every table of a view, the rows
\* the ranking chart of erosion, the top-countries chart and the heat map
\* of land keep are exactly the first min(n, countries) countries by rank
\* value descending, ties by name ascending: of the countries that tie at
\* the cut-off the smaller names are kept.
C12_TopNTiesByName ==
    /\ page = "erosion" =>
          \A n \in 1..EroTopN :
              \A kept \in ero_ranking(country_avg(filtered_df), n) :
                  IsClaimedTopN(kept, country_avg(filtered_df), "OBS_VALUE", n)
    /\ page = "land" =>
          /\ \A n \in 1..LandTopN :
                \A kept \in land_ranking(land_country_sum(filtered_df), n) :
                    IsClaimedTopN(kept, land_country_sum(filtered_df),
                                  "Actual_area_ha", n)
          /\ \A n \in 1..HeatmapTopN :
                \A kept \in heatmap_ranking(
                                row_totals(heatmap_pivot(filtered_df)), n) :
                    IsClaimedTopN(kept, row_totals(heatmap_pivot(filtered_df)),
                                  "total", n)

MeasureValue(m) == IntSum({i \in ViewRows : filtered_df[i].Measure = m})

\* The rows of the view the output-category chart is drawn from.
OutputCatRows ==
    {i \in ViewRows : /\ filtered_df[i].Measure \in nutrient_output_cat
                      /\ filtered_df[i].Nutrients = sel.cat_type}

\* C14: on the nutrients page every sum skips the NaN values: the three
\* metrics are the sums of the reported values of their measure (0 when
\* the view has no row of it, or only NaN ones), and every bar of the
\* organic / inorganic chart and of the output-category chart is the sum
\* of the reported values of its own (area, measure) group.
C14_SumSkipsNaN ==
    page = "nutrients" =>
        /\ out.n_input = F(MeasureValue("Nutrient inputs"))
        /\ out.n_output = F(MeasureValue("Nutrient outputs"))
        /\ out.n_balance = F(MeasureValue(Balance))
        /\ \A i \in 1..Len(out.hori) :
              out.hori[i].OBS_VALUE =
                  F(GroupValue(out.hori[i].Reference_area, out.hori[i].Measure))
        /\ \A i \in 1..Len(out.stacked_bar.table) :
              LET b == out.stacked_bar.table[i]
              IN  b.OBS_VALUE =
                    F(IntSum({j \in OutputCatRows :
                                 /\ filtered_df[j].Reference_area = b.Reference_area
                                 /\ filtered_df[j].Measure = b.Measure}))

\* A NaN and a 2 among the nutrient outputs of the view: the metric is 2.
C14_Witness ==
    /\ page = "nutrients"
    /\ \E r \in Range(filtered_df) :
          r.Measure = "Nutrient outputs" /\ IsNaN(r.OBS_VALUE)
    /\ out.n_output = F(2)
    /\ out.n_input = F(0)

\* C15: a section that groups a frame without rows gets the table without
\* rows, and the pass goes on: the output-category chart, the livestock
\* pie, the organic / inorganic chart and the map of nutrients, the map of
\* the greenhouse-gas page, the '_T' charts of erosion.
C15_EmptyGroupSum ==
    /\ page = "nutrients" =>
          /\ OutputCatRows = {} => out.stacked_bar = Chart(<<>>)
          /\ (\A r \in Range(filtered_df) :
                  ~(r.Measure \in livestock_list /\ r.Nutrients = sel.live_type))
                => out.pie = Chart(<<>>)
          /\ (\A r \in Range(filtered_df) : r.Measure \notin Fertilisers)
                => out.hori = <<>>
          /\ (\A r \in Range(data) :
                  ~(InRange(r) /\ r.Measure = "Balance per hectare"))
                => out.choropleth = Chart(<<>>)
    /\ (page = "ghg"
        /\ \A r \in Range(data) :
              ~(r.TIME_PERIOD = sel.selected_year /\ r.MEASURE = sel.gas_type))
          => out.choropleth = Chart(<<>>)
    /\ (page = "erosion"
        /\ filtered_df # <<>>
        /\ \A r \in Range(filtered_df) : r.EROSION_LEVEL # "_T")
          => /\ out.time_series = Chart(<<>>)
             /\ out.comparison = Chart(<<>>)
             /\ out.ranking = Chart(<<>>)

\* No area selected on the nutrients page: the view is empty, its grouped
\* sections have no rows, and the map, drawn from the years alone, has some.
C15_Witness ==
    /\ page = "nutrients"
    /\ sel.selected_areas = {}
    /\ filtered_df = <<>>
    /\ out.stacked_bar = Chart(<<>>)
    /\ out.pie = Chart(<<>>)
    /\ out.choropleth.table # <<>>

\* C16 as stated: when the view has no reported '_T' value, the 'Average
\* Total Erosion' metric is the "no data" signal, never the number 0 and
\* never NaN; so is every bar of the comparison chart whose group has no
\* reported value.
C16_MeanOfNothingIsNoData ==
    page = "erosion" =>
        /\ (\A r \in Range(filtered_df) :
                ~(r.EROSION_LEVEL = "_T" /\ IsNum(r.OBS_VALUE)))
              => (IsMarker(out.avg_erosion) /\ IsMarker(out.avg_erosion_text))
        /\ out.comparison.kind = "chart" =>
              \A i \in 1..Len(out.comparison.table) :
                  LET b == out.comparison.table[i]
                  IN  (\A r \in Range(filtered_df) :
                          ~(/\ r.EROSION_LEVEL = "_T"
                            /\ r.Country = b.Country
                            /\ r.Types_of_Erosion = b.Types_of_Erosion
                            /\ IsNum(r.OBS_VALUE)))
                        => IsMarker(b.OBS_VALUE)

\* The cells of a wide table whose combination no row of the view has.
Unobserved(wide, idx, col) ==
    {k \in DOMAIN wide.cell :
        \A r \in Range(filtered_df) : ~(r[idx] = k[1] /\ r[col] = k[2])}

\* C17 as stated: in the wide tables of the stacked area chart and the
\* heat map of land and of the line chart of the KPI tab, every cell whose
\* combination was not observed holds the "no data" sentinel (the missing
\* value), never a number.
C17_PivotSentinel ==
    /\ (page = "land" /\ out.stacked_area.kind = "chart") =>
          \A k \in Unobserved(out.stacked_area.table, "Time", "Types_of_Land") :
              ~IsNum(out.stacked_area.table.cell[k])
    /\ (page = "land" /\ out.heatmap.kind = "chart") =>
          \A k \in Unobserved(out.heatmap.table, "Country", "Types_of_Land") :
              ~IsNum(out.heatmap.table.cell[k])
    /\ (page = "ghg" /\ ~out.warning) =>
          \A k \in Unobserved(out.df_plot, "TIME_PERIOD", "MEASURE") :
              ~IsNum(out.df_plot.cell[k])

\* The sections of the page with, for each, whether its data has no row.
Sections ==
    CASE page = "erosion" ->
           << <<out.time_series, filtered_df = <<>> >>,
              <<out.comparison, filtered_df = <<>> >>,
              <<out.severity, filtered_df = <<>> >>,
              <<out.ranking, filtered_df = <<>> >> >>
      [] page = "land" ->
           << <<out.stacked_area, filtered_df = <<>> >>,
              <<out.composition, filtered_df = <<>> >>,
              <<out.trends, filtered_df = <<>> >>,
              <<out.comparison, filtered_df = <<>> >>,
              <<out.top_countries, filtered_df = <<>> >>,
              <<out.heatmap, filtered_df = <<>> >> >>
      [] page = "nutrients" ->
           << <<out.stacked_bar, OutputCatRows = {}>>,
              <<out.pie, \A r \in Range(filtered_df) :
                            ~(/\ r.Measure \in livestock_list
                              /\ r.Nutrients = sel.live_type)>>,
              <<out.choropleth, \A r \in Range(data) :
                            ~(InRange(r) /\ r.Measure = "Balance per hectare")>> >>
      [] page = "ghg" ->
           << <<IF out.warning THEN Warning ELSE Chart(out.df_plot),
                filtered_df = <<>> >>,
              <<out.pie, pie_df_filtered(data, sel) = <<>> >>,
              <<out.choropleth, choropleth_df_filtered(data, sel) = <<>> >> >>

\* C18 as stated: every chart section whose data has no row shows the
\* explicit no-data indicator, never an empty figure.
C18_NoDataIndicator ==
    \A i \in 1..Len(Sections) :
        Sections[i][2] => Sections[i][1].kind = "warning"

\* C19 as stated: when the data file is missing or unreadable, the session
\* shows an error message and stops in a controlled way; no exception
\* escapes the script.
C19_MissingSourceHandled ==
    ~Loaded => out.kind = "stopped" /\ out.error_message

\* C20: the sections of a pass do not depend on each other's outcome.  On
\* the greenhouse-gas page the pie tab and the map tab are rendered from
\* their own filters whether or not the KPI tab ends on its warning; on
\* the nutrients page the sections after a chart without rows are drawn.
C20_SectionsIsolated ==
    /\ page = "ghg" =>
          /\ out.pie.kind \in {"chart", "warning"}
          /\ (out.pie.kind = "chart") <=>
                \E r \in Range(data) :
                    /\ r.Reference_area = sel.pie_region
                    /\ sel.pie_time[1] <= r.TIME_PERIOD
                    /\ r.TIME_PERIOD <= sel.pie_time[2]
                    /\ IF sel.pie_category = "TOTAL"
                       THEN r.MEASURE \in {"CO2", "CH4"}
                       ELSE sel.pie_category = "AGR" /\ r.MEASURE = "CH4_AGR"
          /\ out.choropleth.kind = "chart"
          /\ {b.Reference_area : b \in Range(out.choropleth.table)} =
                {r.Reference_area : r \in
                    {x \in Range(data) : /\ x.TIME_PERIOD = sel.selected_year
                                         /\ x.MEASURE = sel.gas_type}}
    /\ page = "nutrients" =>
          /\ out.pie.kind = "chart"
          /\ out.choropleth.kind = "chart"
          /\ {b.REF_AREA : b \in Range(out.choropleth.table)} =
                {r.REF_AREA : r \in
                    {x \in Range(data) : /\ InRange(x)
                                         /\ x.Measure = "Balance per hectare"}}
          /\ {b.Reference_area : b \in Range(out.hori)} =
                {r.Reference_area : r \in
                    {x \in Range(filtered_df) : x.Measure \in Fertilisers}}

\* The KPI tab ends on its warning (no measure selected) while the pie tab
\* and the map tab of the same pass show their data.
C20_Witness ==
    /\ page = "ghg"
    /\ out.warning
    /\ out.pie.kind = "chart"
    /\ out.choropleth.table # <<>>

\* C21: the loaded dataset is immutable: no run of a page's script, with
\* any selection, changes the rows, columns or values of the dataset the
\* session holds; the filtered view is a table of its own.
C21_DatasetImmutable == [][data' = data]_vars

\* A run has filtered the dataset down to a smaller view.
C21_Witness ==
    /\ Loaded
    /\ sel # Defaults(page, data)
    /\ Len(filtered_df) < Len(data)

\* C22: the data source is read at most once in a session, from its start
\* through any number of interactions.
C22_LoadedOnce == reads <= 1

\* The aggregates of a rendering: every metric and every table, a ranked
\* table as the set of its rows (the order of tied rows is the sort's).
RowsOf(chart) == IF chart.kind = "chart" THEN Range(chart.table) ELSE {}
HeatmapOf(chart) ==
    IF chart.kind = "chart"
    THEN [index |-> Range(chart.table.index), columns |-> chart.table.columns,
          cell |-> chart.table.cell]
    ELSE <<>>
Aggregates(p, o) ==
    CASE p = "erosion" -> [o EXCEPT !.ranking = RowsOf(o.ranking)]
      [] p = "land" -> [o EXCEPT !.top_countries = RowsOf(o.top_countries),
                                 !.heatmap = HeatmapOf(o.heatmap)]
      [] OTHER -> o

C24_ReversedRangeRejected ==
    sel.selected_years[1] > sel.selected_years[2] =>
        out.kind = "ValidationError"

\* The rows of the dataset the nutrients map is about: 'Balance per hectare'
\* within the selected years, whatever their area.
BalancePerHectareRows ==
    {r \in Range(data) : /\ r.TIME_PERIOD >= sel.year_range[1]
                         /\ r.TIME_PERIOD <= sel.year_range[2]
                         /\ r.Measure = "Balance per hectare"}
ViewAreas == {r.Reference_area : r \in Range(filtered_df)}

\* C25: on the nutrients page the map's table is the sum of 'Balance per
\* hectare' per REF_AREA over the rows of the selected years of the whole
\* dataset, the same for every selection of areas; the other sections (line
\* plot, output categories, fertiliser bars, livestock pie) show rows of
\* the area-filtered view only.
C25_ChoroplethIgnoresAreas ==
    (Loaded /\ page = "nutrients") =>
        LET t == out.choropleth.table
        IN  /\ {x.REF_AREA : x \in Range(t)} =
                  {r.REF_AREA : r \in BalancePerHectareRows}
            /\ \A i, j \in 1..Len(t) : t[i].REF_AREA = t[j].REF_AREA => i = j
            /\ \A i \in 1..Len(t) :
                  t[i].OBS_VALUE = SeriesSum(OBS(SelectSeq(data, LAMBDA r :
                      r \in BalancePerHectareRows /\ r.REF_AREA = t[i].REF_AREA)))
            /\ \A a \in SUBSET nut_area(data) :
                  render_nutrient_page(data, [sel EXCEPT !.selected_areas = a]).choropleth
                      = out.choropleth
            /\ "All areas" \notin sel.selected_areas =>
                  ViewAreas \subseteq sel.selected_areas
            /\ Range(out.line_plot.table) \subseteq Range(filtered_df)
            /\ {b.Reference_area : b \in Range(out.stacked_bar.table)} \subseteq ViewAreas
            /\ {b.Reference_area : b \in Range(out.hori)} \subseteq ViewAreas
            /\ {b.Measure : b \in Range(out.pie.table)} \subseteq
                  {r.Measure : r \in Range(filtered_df)}

\* The map shows an area the selection leaves out, beside a view with rows.
C25_Witness ==
    /\ Loaded
    /\ page = "nutrients"
    /\ "All areas" \notin sel.selected_areas
    /\ filtered_df # <<>>
    /\ \E x \in Range(out.choropleth.table) :
          \A r \in Range(filtered_df) : r.REF_AREA # x.REF_AREA

\* The measures of the dataset in the pie tab's region and time range, and
\* those the tab keeps under a category.
PieMeasures ==
    {r.MEASURE : r \in {x \in Range(data) :
        /\ x.Reference_area = sel.pie_region
        /\ x.TIME_PERIOD >= sel.pie_time[1]
        /\ x.TIME_PERIOD <= sel.pie_time[2]}}
NamedIn(m, pat) == <<m, pat>> \in Substrings
PieKept(cat) ==
    LET tab == pie_chart_tab(data, [sel EXCEPT !.pie_category = cat])
    IN  IF tab.kind = "chart" THEN {x.MEASURE : x \in Range(tab.table)} ELSE {}

\* C26: in the pie tab no measure named with TOTGHG is in the grouped
\* result; of the other measures of the region and time range, TOTAL keeps
\* exactly those named with neither LULUCF nor AGR, LULUCF exactly those
\* named with LULUCF, AGR exactly those named with AGR; so TOTAL shares no
\* measure with the other two and every measure not named with TOTGHG is
\* under at least one category.
C26_PieCategories ==
    LET rest == {m \in PieMeasures : ~NamedIn(m, "TOTGHG")}
        shown == IF out.pie.kind = "chart"
                 THEN {x.MEASURE : x \in Range(out.pie.table)} ELSE {}
    IN  /\ \A m \in shown : ~NamedIn(m, "TOTGHG")
        /\ shown = PieKept(sel.pie_category)
        /\ PieKept("TOTAL") =
              {m \in rest : ~NamedIn(m, "LULUCF") /\ ~NamedIn(m, "AGR")}
        /\ PieKept("LULUCF") = {m \in rest : NamedIn(m, "LULUCF")}
        /\ PieKept("AGR") = {m \in rest : NamedIn(m, "AGR")}
        /\ PieKept("TOTAL") \cap (PieKept("LULUCF") \cup PieKept("AGR")) = {}
        /\ rest = PieKept("TOTAL") \cup PieKept("LULUCF") \cup PieKept("AGR")

\* The land-use category shows a measure while a TOTGHG measure named with
\* LULUCF as well is in the region and time range.
C26_Witness ==
    /\ sel.pie_category = "LULUCF"
    /\ out.pie.kind = "chart"
    /\ \E m \in PieMeasures : NamedIn(m, "TOTGHG") /\ NamedIn(m, "LULUCF")

\* The rows of the erosion view at the total level and at the severity
\* levels, and the places a chart's table speaks of.
TotalRows == {r \in Range(filtered_df) : r.EROSION_LEVEL = "_T"}
SeverityRows == {r \in Range(filtered_df) : r.EROSION_LEVEL \notin {"_T", "TOL"}}
TableOf(chart) == IF chart.kind = "chart" THEN chart.table ELSE <<>>

\* C27: on the erosion page the time-series, comparison and ranking charts
\* aggregate the '_T' rows of the view only and the severity breakdown the
\* rows of the levels other than '_T' and 'TOL'; each chart's guard tests
\* the view itself, so with a non-empty severity selection without '_T' and
\* a view with rows, the three charts are drawn from an empty table.
C27_TotalLevelCharts ==
    (Loaded /\ page = "erosion") =>
        /\ \A c \in {out.time_series, out.comparison, out.severity, out.ranking} :
              c.kind = "chart" <=> filtered_df # <<>>
        /\ {<<x.Country, x.Time, x.Types_of_Erosion>> :
                x \in Range(TableOf(out.time_series))} =
              {<<r.Country, r.Time, r.Types_of_Erosion>> : r \in TotalRows}
        /\ {<<x.Country, x.Types_of_Erosion>> :
                x \in Range(TableOf(out.comparison))} =
              {<<r.Country, r.Types_of_Erosion>> : r \in TotalRows}
        /\ {x.Country : x \in Range(TableOf(out.ranking))} =
              {r.Country : r \in TotalRows}
        /\ {x.EROSION_LEVEL : x \in Range(TableOf(out.severity))} =
              {r.EROSION_LEVEL : r \in SeverityRows}
        /\ (/\ filtered_df # <<>>
            /\ sel.selected_severity # {}
            /\ "_T" \notin sel.selected_severity) =>
              \A c \in {out.time_series, out.comparison, out.ranking} :
                  c = Chart(<<>>)

\* A view with rows under a severity selection without '_T': the ranking
\* is a chart of no row while the severity breakdown has a slice.
C27_Witness ==
    /\ Loaded
    /\ page = "erosion"
    /\ filtered_df # <<>>
    /\ sel.selected_severity # {}
    /\ "_T" \notin sel.selected_severity
    /\ out.ranking = Chart(<<>>)
    /\ TableOf(out.severity) # <<>>

\* The countries of the land view, the summed area of one (NaN skipped),
\* and the names the claim lists.
ViewCountries == {r.Country : r \in Range(filtered_df)}
CountryTotal(c) ==
    SeriesSum(AREA(SelectSeq(filtered_df, LAMBDA r : r.Country = c)))
EuropeanUnionAggregates ==
    {"European Union (27 countries from 01/02/2020)",
     "European Union (28 countries)"}
ListedCode(c) ==
    CASE c = "United States" -> "USA"
      [] c = "United Kingdom" -> "GBR"
      [] c = "China (People's Republic of)" -> "CHN"
      [] c = "Korea" -> "KOR"
      [] c = "Türkiye" -> "TUR"
      [] OTHER -> c

\* C28: the map's table holds one row per country of the view whose summed
\* area is strictly positive and that is no European Union aggregate, and
\* no other row; the five listed names are shown as their ISO-3 codes and
\* every other name unchanged.
C28_MapCountries ==
    (page = "land" /\ out.map.kind = "chart") =>
        LET t == out.map.table
        IN  /\ \A i, j \in 1..Len(t) : t[i].Country = t[j].Country => i = j
            /\ {x.Country : x \in Range(t)} =
                  {c \in ViewCountries :
                      /\ IsNum(CountryTotal(c)) /\ CountryTotal(c).n > 0
                      /\ c \notin EuropeanUnionAggregates}
            /\ \A x \in Range(t) :
                  /\ x.Actual_area_ha = CountryTotal(x.Country)
                  /\ x.Country_Clean = ListedCode(x.Country)

\* The view holds a European Union aggregate with a positive area, which
\* the map leaves out, beside a country the map shows under its code.
C28_Witness ==
    /\ page = "land"
    /\ out.map.kind = "chart"
    /\ \E c \in ViewCountries \cap EuropeanUnionAggregates :
          GtZero(CountryTotal(c))
    /\ \E x \in Range(out.map.table) : x.Country_Clean # x.Country


====
